---- MODULE Spec2Model ----
(***************************************************************************)
(* A model of the colourimetry pipeline: spectral records, dataset         *)
(* collections with replicate averaging, and the pipeline orchestrator     *)
(* (load, build_groups, analysis).                                         *)
(*                                                                         *)
(* Numbers.  numpy floats are modelled as exact reals in a closed          *)
(* fragment: a value is a record [k, n, d] with                            *)
(*   k = "q"    the rational n/d (d > 0, lowest terms),                    *)
(*   k = "nlog" the real -log10(n/d), n/d > 0 not a power of ten,          *)
(*   k = "pow"  the real 10^(-(n/d)), not representable as a small n/d,    *)
(*   k = "nar"  a real outside the fragment (never reached, see Exact).    *)
(* Strings that the code searches or splits are sequences of one-character *)
(* strings; names that are only compared are TLA+ strings.                 *)
(***************************************************************************)
EXTENDS Integers, Sequences, FiniteSets, TLC

\* ------------------------------------------------------------------ bounds
\* the number of pipeline calls in a run
MaxCalls == 4

\* -------------------------------------------------------------- arithmetic
Abs(x) == IF x < 0 THEN -x ELSE x

RECURSIVE Gcd(_, _)
Gcd(a, b) == IF b = 0 THEN a ELSE Gcd(b, a % b)

\* the rational n/d in lowest terms with a positive denominator
Q(n, d) ==
    LET g == Gcd(Abs(n), Abs(d))
        s == IF d < 0 THEN -1 ELSE 1
    IN [k |-> "q", n |-> (s * n) \div g, d |-> (s * d) \div g]

QInt(n) == Q(n, 1)
NaR == [k |-> "nar", n |-> 0, d |-> 1]
IsQ(x) == x.k = "q"

QAdd(x, y) == IF IsQ(x) /\ IsQ(y) THEN Q(x.n * y.d + y.n * x.d, x.d * y.d) ELSE NaR
QSub(x, y) == IF IsQ(x) /\ IsQ(y) THEN Q(x.n * y.d - y.n * x.d, x.d * y.d) ELSE NaR
QDivInt(x, c) == IF IsQ(x) THEN Q(x.n, x.d * c) ELSE NaR
QLess(x, y) == x.n * y.d < y.n * x.d
QLeq(x, y) == x.n * y.d <= y.n * x.d

RECURSIVE Pow10(_)
Pow10(e) == IF e = 0 THEN 1 ELSE 10 * Pow10(e - 1)

\* the exponents e for which 10^e is kept as a rational n/d
MaxExp == 4

\* e with x = 10^(-e), for a positive rational x that is such a power
IsPow10(x) == \E e \in 0..MaxExp : x = Q(1, Pow10(e)) \/ x = Q(Pow10(e), 1)
Exp10(x) == CHOOSE e \in -MaxExp..MaxExp :
                x = (IF e >= 0 THEN Q(1, Pow10(e)) ELSE Q(Pow10(-e), 1))

\* 10 ** (-x)
Pow10Neg(x) ==
    CASE x.k = "q" /\ x.d = 1 /\ Abs(x.n) <= MaxExp ->
             IF x.n >= 0 THEN Q(1, Pow10(x.n)) ELSE Q(Pow10(-x.n), 1)
      [] x.k = "q" -> [k |-> "pow", n |-> x.n, d |-> x.d]
      [] x.k = "nlog" -> Q(x.n, x.d)
      [] OTHER -> NaR

\* -np.log10(x), for x > 0
NegLog10(x) ==
    CASE x.k = "q" /\ x.n > 0 /\ IsPow10(x) -> QInt(Exp10(x))
      [] x.k = "q" /\ x.n > 0 -> [k |-> "nlog", n |-> x.n, d |-> x.d]
      [] x.k = "pow" -> Q(x.n, x.d)
      [] OTHER -> NaR

\* the floor of np.clip(., 1e-12, None) is 10^(-ClipExp)
ClipExp == 12

\* -np.log10(np.clip(x, 1e-12, None)): every positive n/d of the fragment
\* exceeds 1e-12 (d < 2^31 < 10^12), so x is at or below the floor iff n <= 0
NegLog10Clip(x) ==
    CASE x.k = "q" /\ x.n <= 0 -> QInt(ClipExp)
      [] x.k = "pow" /\ x.d > 0 /\ x.n > ClipExp * x.d -> QInt(ClipExp)
      [] OTHER -> NegLog10(x)

\* ------------------------------------------------------------ sequences
RECURSIVE SumSeq(_)
SumSeq(s) == IF s = <<>> THEN QInt(0) ELSE QAdd(Head(s), SumSeq(Tail(s)))

Range(s) == {s[i] : i \in 1..Len(s)}

RECURSIVE SelectIdx(_, _, _)
\* the indices i of 1..n with keep[i], ascending
SelectIdx(keep, i, n) ==
    IF i > n THEN <<>>
    ELSE (IF keep[i] THEN <<i>> ELSE <<>>) \o SelectIdx(keep, i + 1, n)

\* ------------------------------------------------------------ strings
\* s occurs in t at position i (1-based)
OccursAt(s, t, i) == i + Len(s) - 1 <= Len(t) /\ SubSeq(t, i, i + Len(s) - 1) = s

\* Python `s in t`
Contains(s, t) == \E i \in 1..(Len(t) + 1) : OccursAt(s, t, i)

\* Python t.find(s) + 1, for s in t
FirstIndex(s, t) == CHOOSE i \in 1..(Len(t) + 1) :
                        OccursAt(s, t, i) /\ \A j \in 1..(i - 1) : ~OccursAt(s, t, j)

\* t.rsplit(s, 1)[0]: the text before the last place where s occurs
SplitHeadLast(t, s) ==
    IF Contains(s, t)
    THEN SubSeq(t, 1, (CHOOSE i \in 1..(Len(t) + 1) :
                          OccursAt(s, t, i)
                          /\ \A j \in (i + 1)..(Len(t) + 1) : ~OccursAt(s, t, j)) - 1)
    ELSE t

\* Python t.split(s)[0], for non-empty s
SplitHead(t, s) == IF Contains(s, t) THEN SubSeq(t, 1, FirstIndex(s, t) - 1) ELSE t

\* Python t.split(s, 1): <<t>> when s does not occur, else <<before, after>>
SplitOnce(t, s) ==
    IF Contains(s, t)
    THEN LET i == FirstIndex(s, t)
         IN <<SubSeq(t, 1, i - 1), SubSeq(t, i + Len(s), Len(t))>>
    ELSE <<t>>

\* ------------------------------------------------------- SpectralRecord
SpectralRecord(w, a, t) == [wavelengths |-> w, absorbances |-> a, transmittances |-> t]

\* ------------------------------------------------------- SpcFileParser
BandLow == 250
BandHigh == 800

\* a conversion that, in mode R, leaves the amplitudes as the transmittances
ConvertKeepingReflectance(mode, amplitudes) ==
    CASE mode = "A" ->
             [a |-> amplitudes,
              t |-> [i \in 1..Len(amplitudes) |-> Pow10Neg(amplitudes[i])]]
      [] mode = "T" ->
             [a |-> [i \in 1..Len(amplitudes) |-> NegLog10Clip(amplitudes[i])],
              t |-> amplitudes]
      [] OTHER ->
             [a |-> [i \in 1..Len(amplitudes) |-> QSub(QInt(1), amplitudes[i])],
              t |-> amplitudes]

\* the (absorbances, transmittances) pair derived from the amplitudes
Convert(mode, amplitudes) ==
    CASE mode = "A" ->
             [a |-> amplitudes,
              t |-> [i \in 1..Len(amplitudes) |-> Pow10Neg(amplitudes[i])]]
      [] mode = "T" ->
             [a |-> [i \in 1..Len(amplitudes) |-> NegLog10Clip(amplitudes[i])],
              t |-> amplitudes]
      [] OTHER ->
             LET a == [i \in 1..Len(amplitudes) |-> QSub(QInt(1), amplitudes[i])]
             IN [a |-> a, t |-> [i \in 1..Len(amplitudes) |-> Pow10Neg(a[i])]]

\* a selector with the band open at both ends
SelectorOpen(w) == w.d = 1 /\ w.n > BandLow /\ w.n < BandHigh

\* (wavelengths % 1 == 0) & (wavelengths >= 250) & (wavelengths <= 800)
Selector(w) == w.d = 1 /\ w.n >= BandLow /\ w.n <= BandHigh

RECURSIVE InsertIdx(_, _, _)
\* index i put into the index list idx, kept ascending by ws, after its equals
InsertIdx(idx, i, ws) ==
    IF idx = <<>> THEN <<i>>
    ELSE IF QLess(ws[i], ws[Head(idx)]) THEN <<i>> \o idx
    ELSE <<Head(idx)>> \o InsertIdx(Tail(idx), i, ws)

RECURSIVE ArgsortUpTo(_, _)
ArgsortUpTo(ws, n) ==
    IF n = 0 THEN <<>> ELSE InsertIdx(ArgsortUpTo(ws, n - 1), n, ws)

\* an argsort that leaves the order as it is
ArgsortIdentity(ws) == [i \in 1..Len(ws) |-> i]

\* np.argsort(ws): arrays of this size are sorted by insertion, ties in order
Argsort(ws) == ArgsortUpTo(ws, Len(ws))

Take(s, idx) == [i \in 1..Len(idx) |-> s[idx[i]]]

\* SpcFileParser.parse on what specread returned for the file
Parse(file, mode) ==
    LET wavelengths == file.wavelength
        c == Convert(mode, file.amplitudes)
        keep == [i \in 1..Len(wavelengths) |-> Selector(wavelengths[i])]
        sel == SelectIdx(keep, 1, Len(wavelengths))
        sort_idx == Argsort(Take(wavelengths, sel))
    IN SpectralRecord(Take(Take(wavelengths, sel), sort_idx),
                      Take(Take(c.a, sel), sort_idx),
                      Take(Take(c.t, sel), sort_idx))

\* ------------------------------------------------- DatasetCollection
\* A collection is its entries dict: the sequence of [key, entry] in
\* insertion order, keys distinct.
DatasetEntry(record, measurement, metadata) ==
    [record |-> record, measurement |-> measurement, metadata |-> metadata]

EmptyCollection == <<>>

KeySeq(c) == [i \in 1..Len(c) |-> c[i].key]
Keys(c) == {c[i].key : i \in 1..Len(c)}
Has(c, key) == key \in Keys(c)
Get(c, key) == (CHOOSE i \in 1..Len(c) : c[i].key = key)
EntryOf(c, key) == c[Get(c, key)].entry

\* entries[key] = entry: in place when the key is there, appended otherwise
Put(c, key, entry) ==
    IF Has(c, key)
    THEN [i \in 1..Len(c) |-> IF c[i].key = key THEN [key |-> key, entry |-> entry]
                              ELSE c[i]]
    ELSE Append(c, [key |-> key, entry |-> entry])

\* the collection as a mapping, insertion order forgotten
AsMap(c) == {<<c[i].key, c[i].entry>> : i \in 1..Len(c)}

RECURSIVE extend(_, _)
\* DatasetCollection.extend: entries.update(other.entries)
extend(c, other) ==
    IF other = <<>> THEN c
    ELSE extend(Put(c, Head(other).key, Head(other).entry), Tail(other))

\* DatasetCollection.add
add(c, name, record, measurement, metadata) ==
    Put(c, name, DatasetEntry(record, measurement, metadata))

RECURSIVE subsetSkipping(_, _)
\* a subset that passes over the keys it does not hold
subsetSkipping(c, keys) ==
    IF keys = <<>> THEN [err |-> "none", val |-> EmptyCollection]
    ELSE LET rest == subsetSkipping(c, SubSeq(keys, 1, Len(keys) - 1))
             key == keys[Len(keys)]
         IN IF ~Has(c, key) THEN rest
            ELSE [err |-> "none", val |-> Put(rest.val, key, EntryOf(c, key))]

RECURSIVE subset(_, _)
\* DatasetCollection.subset: entries[key] raises KeyError on an absent key
subset(c, keys) ==
    IF keys = <<>> THEN [err |-> "none", val |-> EmptyCollection]
    ELSE LET rest == subset(c, SubSeq(keys, 1, Len(keys) - 1))
             key == keys[Len(keys)]
         IN IF rest.err # "none" THEN rest
            ELSE IF ~Has(c, key) THEN [err |-> "KeyError", val |-> EmptyCollection]
            ELSE [err |-> "none", val |-> Put(rest.val, key, EntryOf(c, key))]

\* ---------------------------------------------------------- averaged
\* a root that keeps the marker it was split at
RootOfKeepingMarker(key, suffix) ==
    IF suffix # <<>> /\ Contains(suffix, key) THEN SplitHead(key, suffix) \o suffix ELSE key

\* the root of a key: the text before the marker, or the whole key
RootOf(key, suffix) ==
    IF suffix # <<>> /\ Contains(suffix, key) THEN SplitHead(key, suffix) ELSE key

RECURSIVE Grouped(_, _)
\* the defaultdict grouped: the sequence of [key |-> root, entry |-> entries]
\* in the order the roots are first met
Grouped(c, suffix) ==
    IF c = <<>> THEN <<>>
    ELSE LET g == Grouped(SubSeq(c, 1, Len(c) - 1), suffix)
             last == c[Len(c)]
             root == RootOf(last.key, suffix)
         IN IF Has(g, root)
            THEN Put(g, root, Append(EntryOf(g, root), last.entry))
            ELSE Put(g, root, <<last.entry>>)

\* np.stack accepts the arrays: all of one shape
SameShape(arrays) == \A i \in 1..Len(arrays) : Len(arrays[i]) = Len(arrays[1])

\* np.stack(arrays, axis=0).mean(axis=0)
MeanAxis0(arrays) ==
    [i \in 1..Len(arrays[1]) |->
        QDivInt(SumSeq([j \in 1..Len(arrays) |-> arrays[j][i]]), Len(arrays))]

\* the replicates merged with the mean of their absorbances
AveragedEntryMeanAbsorbance(entries) ==
    LET mean_wavelengths == MeanAxis0([j \in 1..Len(entries) |-> entries[j].record.wavelengths])
        mean_values == MeanAxis0([j \in 1..Len(entries) |-> entries[j].record.transmittances])
        absorbances == MeanAxis0([j \in 1..Len(entries) |-> entries[j].record.absorbances])
    IN DatasetEntry(SpectralRecord(mean_wavelengths, absorbances, mean_values),
                    "transmittance", entries[1].metadata)

\* the entry that replaces two or more replicates
AveragedEntry(entries) ==
    LET mean_wavelengths == MeanAxis0([j \in 1..Len(entries) |-> entries[j].record.wavelengths])
        mean_values == MeanAxis0([j \in 1..Len(entries) |-> entries[j].record.transmittances])
        absorbances == [i \in 1..Len(mean_values) |-> NegLog10Clip(mean_values[i])]
    IN DatasetEntry(SpectralRecord(mean_wavelengths, absorbances, mean_values),
                    "transmittance", entries[1].metadata)

\* the replicates of one root can be stacked
Stackable(entries) ==
    /\ SameShape([j \in 1..Len(entries) |-> entries[j].record.wavelengths])
    /\ SameShape([j \in 1..Len(entries) |-> entries[j].record.transmittances])

\* DatasetCollection.averaged: [err, val]; np.stack raises ValueError when the
\* replicates of a root differ in length
averaged(c, suffix) ==
    LET grouped == Grouped(c, suffix)
    IN IF \E i \in 1..Len(grouped) :
              Len(grouped[i].entry) > 1 /\ ~Stackable(grouped[i].entry)
       THEN [err |-> "ValueError", val |-> EmptyCollection]
       ELSE [err |-> "none",
             val |-> [i \in 1..Len(grouped) |->
                        [key |-> grouped[i].key,
                         entry |-> IF Len(grouped[i].entry) = 1
                                   THEN grouped[i].entry[1]
                                   ELSE AveragedEntry(grouped[i].entry)]]]

\* ------------------------------------------------------------ maps
\* a dict whose order is never observed: a function on its keys
EmptyMap == <<>>
MapPut(m, key, v) == [x \in (DOMAIN m) \cup {key} |-> IF x = key THEN v ELSE m[x]]

\* ------------------------------------------------------ environment
\* key and descriptor texts
kX1 == <<"X", "#", "1">>
kX2 == <<"X", "#", "2">>
kX == <<"X">>
kY == <<"Y">>
kZ == <<"Z">>
kY1 == <<"Y", "#", "1">>
kY2 == <<"Y", "#", "2">>
sAll == <<"a", "l", "l">>
sAveraged == <<"a", "v", "e", "r", "a", "g", "e", "d">>
sRaw == <<"r", "a", "w">>
sColon == <<":">>
sHash == <<"#">>

\* what specread returns for the files on disk
File(ws, amps) == [wavelength |-> ws, amplitudes |-> amps]
F9 == File(<<QInt(400), QInt(500)>>, <<Q(9, 10), Q(9, 10)>>)
F7 == File(<<QInt(500), QInt(900), QInt(400)>>, <<Q(7, 10), Q(1, 2), Q(7, 10)>>)
F1 == File(<<QInt(400), Q(901, 2)>>, <<Q(1, 2), Q(1, 2)>>)
FA == File(<<QInt(400), QInt(500)>>, <<QInt(0), QInt(1)>>)
FD == File(<<QInt(500), QInt(400), QInt(400)>>, <<QInt(0), Q(1, 2), QInt(-1)>>)

\* sorted(Path(path).iterdir()) for the paths of the file system
Listing(path) ==
    CASE path = "runA" -> <<[stem |-> kX1, suffix |-> ".sp", file |-> F9],
                            [stem |-> kX2, suffix |-> ".SP", file |-> F7],
                            [stem |-> kY, suffix |-> ".txt", file |-> F1]>>
      [] path = "runB" -> <<[stem |-> kX1, suffix |-> ".sp", file |-> FA],
                            [stem |-> kY, suffix |-> ".sp", file |-> FA]>>
      [] path = "runD" -> <<[stem |-> kX2, suffix |-> ".sp", file |-> F1]>>
      [] path = "runE" -> <<[stem |-> kY1, suffix |-> ".sp", file |-> FD],
                            [stem |-> kY2, suffix |-> ".sp", file |-> FD]>>
      [] OTHER -> <<>>

\* directory.path.exists()
Exists(path) == path \in {"runA", "runB", "runD", "runE"}

DirectoryConfig(name, path, mode) ==
    [name |-> name, path |-> path, mode |-> mode,
     measurement |-> "transmittance", extension |-> ".sp"]

DirA == DirectoryConfig("a", "runA", "T")
DirB == DirectoryConfig("b", "runB", "a")
DirC == DirectoryConfig("c", "runC", "A")
DirD == DirectoryConfig("d", "runD", "r")
DirE == DirectoryConfig("e", "runE", "T")

\* the directory lists handed to load_directories (runC does not exist)
DirectoryLists == {<<>>, <<DirC, DirA>>, <<DirB>>, <<DirD>>, <<DirE>>}

\* str.lower and str.upper on the texts that occur
Lower(s) == CASE s = ".SP" -> ".sp" [] s = ".TXT" -> ".txt" [] OTHER -> s
Upper(s) == CASE s = "a" -> "A" [] s = "t" -> "T" [] s = "r" -> "R" [] OTHER -> s

\* NotebookConfig
DatasetGroup(name, source, keys, extra_assignments) ==
    [name |-> name, source |-> source, keys |-> keys,
     extra_assignments |-> extra_assignments]

ConfigDirectories == <<>>
ConfigIlluminants == [n \in {"D65", "A"} |-> [sd |-> n]]
ConfigReferenceLab == "REFERENCE_LAB"

\* a spectral distribution handed to analyse_group directly
CustomSD == [sd |-> "custom"]

\* the group descriptors of the configurations
G1 == DatasetGroup("g1", sAll, <<kX1, kZ>>, <<>>)
G2 == DatasetGroup("g2", sAveraged, <<kX, kY>>,
                   <<[key |-> kX2, entry |-> sAll \o sColon \o kX2],
                     [key |-> <<"V">>, entry |-> sAll \o kX1],
                     [key |-> <<"W">>, entry |-> sRaw \o sColon \o kY],
                     [key |-> <<"U">>, entry |-> sAveraged \o sColon \o kZ]>>)
G3 == DatasetGroup("g3", sRaw, <<kX1>>, <<>>)
G4 == DatasetGroup("g1", sAll, <<kX1, kY>>,
                   <<[key |-> kX1, entry |-> sAveraged \o sColon \o kX]>>)
ConfigGroups == <<G1>>

\* the group lists handed to build_groups (g3 names an unknown source)
GroupLists == {<<>>, <<G2>>, <<G4>>, <<G1, G2>>, <<G2, G3, G1>>}

\* the inline spectra: (wavelengths, absorbances) pairs
SAMPLE_SPECTRA == <<<<<<QInt(400), QInt(500)>>, <<QInt(0), QInt(1)>>>>>>

\* f"sample_{index:02d}"
Digit(n) == <<"0", "1", "2", "3", "4", "5", "6", "7", "8", "9">>[n + 1]
SampleName(index) ==
    <<"s", "a", "m", "p", "l", "e", "_">>
        \o (IF index < 10 THEN <<"0", Digit(index)>>
            ELSE <<Digit((index \div 10) % 10), Digit(index % 10)>>)

\* --------------------------------------------------------- the pipeline
VARIABLES raw_collections, all_data, averaged_data, groups, results, last, calls

vars == <<raw_collections, all_data, averaged_data, groups, results, last, calls>>

\* ColourimetryPipeline.__init__
Init ==
    /\ raw_collections = EmptyMap
    /\ all_data = EmptyCollection
    /\ averaged_data = EmptyCollection
    /\ groups = EmptyMap
    /\ results = EmptyMap
    /\ last = [op |-> "init", args |-> <<>>, err |-> "none", ret |-> <<>>]
    /\ calls = 0

RECURSIVE from_directory(_, _)
\* DatasetCollection.from_directory over the sorted listing: [err, val]
from_directory(listing, directory) ==
    IF listing = <<>> THEN [err |-> "none", val |-> EmptyCollection]
    ELSE LET rest == from_directory(SubSeq(listing, 1, Len(listing) - 1), directory)
             item == listing[Len(listing)]
         IN IF rest.err # "none" THEN rest
            ELSE IF Lower(item.suffix) # Lower(directory.extension) THEN rest
            ELSE IF Upper(directory.mode) \notin {"A", "T", "R"}
                 THEN [err |-> "ValueError", val |-> EmptyCollection]
            ELSE [err |-> "none",
                  val |-> add(rest.val, item.stem,
                              Parse(item.file, Upper(directory.mode)),
                              directory.measurement, {})]

RECURSIVE LoadLoop(_, _, _)
\* the loop of load_directories: [err, raw, all]
LoadLoop(directories, raw, all) ==
    IF directories = <<>> THEN [err |-> "none", raw |-> raw, all |-> all]
    ELSE LET directory == Head(directories)
         IN IF ~Exists(directory.path) THEN LoadLoop(Tail(directories), raw, all)
            ELSE LET collection == from_directory(Listing(directory.path), directory)
                 IN IF collection.err # "none"
                    THEN [err |-> collection.err, raw |-> raw, all |-> all]
                    ELSE LoadLoop(Tail(directories),
                                  MapPut(raw, directory.name, collection.val),
                                  extend(all, collection.val))

\* _build_averaged_dataset computing the averaged pool only while it is empty
BuildAveragedStale(all, old) ==
    IF all = <<>> \/ old # <<>> THEN [err |-> "none", val |-> old]
    ELSE LET a == averaged(all, sHash)
         IN IF a.err # "none" THEN [err |-> a.err, val |-> old] ELSE a

\* _build_averaged_dataset: [err, val], val the new averaged_data
BuildAveraged(all, old) ==
    IF all = <<>> THEN [err |-> "none", val |-> old]
    ELSE LET a == averaged(all, sHash)
         IN IF a.err # "none" THEN [err |-> a.err, val |-> old] ELSE a

\* load_directories with the raw pool emptied before the loop
LoadDirectoriesFresh(directories, raw, all) ==
    LoadLoop(IF directories = <<>> THEN ConfigDirectories ELSE directories,
             raw, EmptyCollection)

\* load_directories up to the end of its loop: [err, raw, all]
LoadDirectories(directories, raw, all) ==
    LoadLoop(IF directories = <<>> THEN ConfigDirectories ELSE directories, raw, all)

load_directories(directories) ==
    /\ calls < MaxCalls
    /\ LET loop == LoadDirectories(directories, raw_collections, all_data)
           avg == IF loop.err # "none" THEN [err |-> loop.err, val |-> averaged_data]
                  ELSE BuildAveraged(loop.all, averaged_data)
       IN /\ raw_collections' = loop.raw
          /\ all_data' = loop.all
          /\ averaged_data' = avg.val
          /\ last' = [op |-> "load_directories", args |-> directories,
                      err |-> avg.err, ret |-> <<>>]
    /\ calls' = calls + 1
    /\ UNCHANGED <<groups, results>>

RECURSIVE SampleLoop(_, _, _)
\* the loop of load_sample_spectra, from index on
SampleLoop(spectra, index, all) ==
    IF spectra = <<>> THEN all
    ELSE LET wavelengths_array == Head(spectra)[1]
             absorbances_array == Head(spectra)[2]
             transmittances == [i \in 1..Len(absorbances_array) |->
                                   Pow10Neg(absorbances_array[i])]
             record == SpectralRecord(wavelengths_array, absorbances_array, transmittances)
         IN SampleLoop(Tail(spectra), index + 1,
                       add(all, SampleName(index), record, "absorbance",
                           {<<"source", "inline">>}))

load_sample_spectra ==
    /\ calls < MaxCalls
    /\ LET all == SampleLoop(SAMPLE_SPECTRA, 1, all_data)
           avg == BuildAveraged(all, averaged_data)
       IN /\ all_data' = all
          /\ averaged_data' = avg.val
          /\ last' = [op |-> "load_sample_spectra", args |-> <<>>,
                      err |-> avg.err, ret |-> <<>>]
    /\ calls' = calls + 1
    /\ UNCHANGED <<raw_collections, groups, results>>

\* collection_lookup.get(name): [found, coll]
Lookup(name, all, avg) ==
    CASE name = sAll -> [found |-> TRUE, coll |-> all]
      [] name = sAveraged -> [found |-> TRUE, coll |-> avg]
      [] OTHER -> [found |-> FALSE, coll |-> EmptyCollection]

RECURSIVE KeysLoopGivingUp(_, _, _)
\* the loop over group.keys giving the subset up at a key the pool lacks
KeysLoopGivingUp(keys, source_collection, sub) ==
    IF keys = <<>> THEN sub
    ELSE IF ~Has(source_collection, Head(keys)) THEN EmptyCollection
    ELSE KeysLoopGivingUp(Tail(keys), source_collection,
                          Put(sub, Head(keys), EntryOf(source_collection, Head(keys))))

RECURSIVE KeysLoop(_, _, _)
\* for key in group.keys: the listed keys that the source pool holds
KeysLoop(keys, source_collection, sub) ==
    IF keys = <<>> THEN sub
    ELSE KeysLoop(Tail(keys), source_collection,
                  IF Has(source_collection, Head(keys))
                  THEN Put(sub, Head(keys), EntryOf(source_collection, Head(keys)))
                  ELSE sub)

\* an assignment that takes an unknown pool name for the raw pool
AssignDefaulting(sub, target_key, descriptor, all, avg) ==
    LET parts == SplitOnce(descriptor, sColon)
    IN IF Len(parts) # 2 THEN sub
       ELSE LET found == Lookup(parts[1], all, avg)
                source == IF found.found THEN found.coll ELSE all
            IN IF Has(source, parts[2])
               THEN Put(sub, target_key, EntryOf(source, parts[2]))
               ELSE sub

\* one extra assignment target_key <- descriptor applied to the subset
Assign(sub, target_key, descriptor, all, avg) ==
    LET parts == SplitOnce(descriptor, sColon)
    IN IF Len(parts) # 2 THEN sub
       ELSE LET source == Lookup(parts[1], all, avg)
                source_key == parts[2]
            IN IF source.found /\ Has(source.coll, source_key)
               THEN Put(sub, target_key, EntryOf(source.coll, source_key))
               ELSE sub

RECURSIVE AssignLoop(_, _, _, _)
\* for target_key, descriptor in group.extra_assignments.items()
AssignLoop(extra, sub, all, avg) ==
    IF extra = <<>> THEN sub
    ELSE AssignLoop(Tail(extra),
                    Assign(sub, Head(extra).key, Head(extra).entry, all, avg),
                    all, avg)

\* the subset with the assignments applied before the key list
GroupSubsetKeysLast(group, all, avg) ==
    KeysLoop(group.keys, Lookup(group.source, all, avg).coll,
             AssignLoop(group.extra_assignments, EmptyCollection, all, avg))

\* the subset collection stored for one group
GroupSubset(group, all, avg) ==
    AssignLoop(group.extra_assignments,
               KeysLoop(group.keys, Lookup(group.source, all, avg).coll, EmptyCollection),
               all, avg)

RECURSIVE GroupsLoop(_, _, _, _)
\* for group in groups: [err, val], val the groups map when the loop ends
GroupsLoop(gs, map, all, avg) ==
    IF gs = <<>> THEN [err |-> "none", val |-> map]
    ELSE LET group == Head(gs)
         IN IF ~Lookup(group.source, all, avg).found
            THEN [err |-> "ValueError", val |-> map]
            ELSE GroupsLoop(Tail(gs), MapPut(map, group.name, GroupSubset(group, all, avg)),
                            all, avg)

\* build_groups with the groups map emptied before the loop
BuildGroupsFresh(gs, map, all, avg) ==
    GroupsLoop(IF gs = <<>> THEN ConfigGroups ELSE gs, EmptyMap, all, avg)

\* build_groups writing the groups map only when the whole list succeeds
BuildGroupsAtomic(gs, map, all, avg) ==
    LET loop == GroupsLoop(IF gs = <<>> THEN ConfigGroups ELSE gs, map, all, avg)
    IN IF loop.err # "none" THEN [err |-> loop.err, val |-> map] ELSE loop

\* build_groups as a function of the state it reads: [err, val]
BuildGroups(gs, map, all, avg) ==
    GroupsLoop(IF gs = <<>> THEN ConfigGroups ELSE gs, map, all, avg)

build_groups(gs) ==
    /\ calls < MaxCalls
    /\ LET loop == BuildGroups(gs, groups, all_data, averaged_data)
       IN /\ groups' = loop.val
          /\ last' = [op |-> "build_groups", args |-> gs, err |-> loop.err, ret |-> <<>>]
    /\ calls' = calls + 1
    /\ UNCHANGED <<raw_collections, all_data, averaged_data, results>>

\* ------------------------------------------------------------ analysis
SD(name, temperature) == [sd |-> name, t |-> temperature]

\* the two kinds of spectrum argument: a list of pairs, and the generator
\* that SpectralRecord.as_pairs returns
ListOf(pairs) == [kind |-> "list", items |-> pairs]
GeneratorOf(pairs) == [kind |-> "generator", items |-> pairs]

\* SpectralRecord.as_pairs: a generator function
as_pairs(record, quantity) ==
    LET data == IF quantity = "absorbance" THEN record.absorbances
                ELSE record.transmittances
        n == IF Len(record.wavelengths) < Len(data) THEN Len(record.wavelengths)
             ELSE Len(data)
    IN GeneratorOf([i \in 1..n |-> <<record.wavelengths[i], data[i]>>])

\* np.array(spectrum, dtype=float): a generator is no sequence, numpy takes
\* it for one scalar and float() of it raises TypeError
NpArray(spectrum) ==
    IF spectrum.kind = "generator" THEN [err |-> "TypeError", val |-> <<>>]
    ELSE [err |-> "none", val |-> spectrum.items]

\* a mask keeping only the wavelengths strictly inside the range
MaskOpen(pair) == QLess(QInt(360), pair[1]) /\ QLess(pair[1], QInt(800))

\* (wavelengths >= 360) & (wavelengths <= 800)
Mask(pair) == QLeq(QInt(360), pair[1]) /\ QLeq(pair[1], QInt(800))

RECURSIVE DictOf(_, _)
\* dict(zip(wavelengths, transmittance)) filled pair by pair into d
DictOf(pairs, d) ==
    IF pairs = <<>> THEN d
    ELSE DictOf(Tail(pairs), Put(d, Head(pairs)[1], Head(pairs)[2]))

\* spectrum_to_xyz up to the SpectralDistribution handed to the colour
\* library: [err, sd, illuminant]; rgb, lab and xyz are the library's
\* values for sd and illuminant
spectrum_to_xyz(spectrum, absorbance, illuminant) ==
    LET array == NpArray(spectrum)
    IN IF array.err # "none" THEN [err |-> array.err, sd |-> <<>>, illuminant |-> illuminant]
       ELSE IF array.val = <<>>
       THEN [err |-> "IndexError", sd |-> <<>>, illuminant |-> illuminant]
       ELSE LET masked == SelectSeq(array.val, Mask)
                transmittance ==
                    [i \in 1..Len(masked) |->
                        <<masked[i][1],
                          IF absorbance THEN Pow10Neg(masked[i][2]) ELSE masked[i][2]>>]
            IN [err |-> "none", sd |-> DictOf(transmittance, <<>>),
                illuminant |-> illuminant]

\* compute_colour_metrics: [err, val], val standing for the ColourMetrics
\* that the colour library derives from the distribution, the illuminant
\* and the reference
compute_colour_metrics(spectrum, absorbance, illuminant, reference_lab) ==
    LET r == spectrum_to_xyz(spectrum, absorbance, illuminant)
    IN IF r.err # "none" THEN [err |-> r.err, val |-> <<>>]
       ELSE [err |-> "none",
             val |-> [sd |-> r.sd, illuminant |-> illuminant,
                      reference_lab |-> reference_lab]]

\* ColourResult; the two distances are functions of metrics.rgb
ColourResult(name, metrics) == [name |-> name, metrics |-> metrics]

RECURSIVE AnalyseLoop(_, _, _, _, _, _, _)
\* for key, entry in group.items(), from the entries left on: [err, ret,
\* results]; with store the result is also written to self.results
AnalyseLoop(entries, absorbance, illuminant_sd, reference_lab, computed, res, store) ==
    IF entries = <<>> THEN [err |-> "none", ret |-> computed, results |-> res]
    ELSE LET key == Head(entries).key
             spectrum == as_pairs(Head(entries).entry.record,
                                  IF absorbance THEN "absorbance" ELSE "transmittance")
             metrics == compute_colour_metrics(spectrum, absorbance, illuminant_sd,
                                               reference_lab)
         IN IF metrics.err # "none"
            THEN [err |-> metrics.err, ret |-> <<>>, results |-> res]
            ELSE AnalyseLoop(Tail(entries), absorbance, illuminant_sd, reference_lab,
                             Put(computed, key, ColourResult(key, metrics.val)),
                             IF store THEN MapPut(res, key, ColourResult(key, metrics.val))
                             ELSE res,
                             store)

\* an illuminant argument: a name (a str) or a spectral distribution
IllName(n) == [str |-> TRUE, v |-> SD(n, 0)]
IllObject(sd) == [str |-> FALSE, v |-> sd]

\* an analyse_group that takes an unknown illuminant name for "D65"
AnalyseGroupDefaulting(grps, res, group_name, illuminant, absorbance) ==
    IF group_name \notin DOMAIN grps
    THEN [err |-> "KeyError", ret |-> <<>>, results |-> res]
    ELSE LET illuminant_sd ==
                 IF ~illuminant.str THEN illuminant.v
                 ELSE IF illuminant.v.sd \in DOMAIN ConfigIlluminants
                 THEN SD(ConfigIlluminants[illuminant.v.sd].sd, 0)
                 ELSE SD(ConfigIlluminants["D65"].sd, 0)
         IN AnalyseLoop(grps[group_name], absorbance, illuminant_sd, ConfigReferenceLab,
                        <<>>, res, TRUE)

\* analyse_group as a function of the state it reads: [err, ret, results]
AnalyseGroup(grps, res, group_name, illuminant, absorbance) ==
    IF group_name \notin DOMAIN grps
    THEN [err |-> "KeyError", ret |-> <<>>, results |-> res]
    ELSE IF illuminant.str /\ illuminant.v.sd \notin DOMAIN ConfigIlluminants
    THEN [err |-> "KeyError", ret |-> <<>>, results |-> res]
    ELSE LET illuminant_sd == IF illuminant.str
                              THEN SD(ConfigIlluminants[illuminant.v.sd].sd, 0)
                              ELSE illuminant.v
         IN AnalyseLoop(grps[group_name], absorbance, illuminant_sd, ConfigReferenceLab,
                        <<>>, res, TRUE)

\* the arguments of the analysis calls ("E" is no configured illuminant)
GroupNames == {"g1", "g2"}
IlluminantArgs == {IllName(n) : n \in {"D65", "A", "E"}} \cup {IllObject(SD("custom", 0))}
IlluminantLists == {<<"D65", "A">>, <<"A", "A">>, <<"D65", "E">>}

analyse_group(group_name, illuminant) ==
    /\ calls < MaxCalls
    /\ LET r == AnalyseGroup(groups, results, group_name, illuminant, TRUE)
       IN /\ results' = r.results
          /\ last' = [op |-> "analyse_group",
                      args |-> <<group_name, illuminant>>, err |-> r.err, ret |-> r.ret]
    /\ calls' = calls + 1
    /\ UNCHANGED <<raw_collections, all_data, averaged_data, groups>>

RECURSIVE IlluminantsLoop(_, _, _, _)
\* for illuminant in illuminants: [err, ret, results], ret the output dict
IlluminantsLoop(illuminants, group_name, output, res) ==
    IF illuminants = <<>> THEN [err |-> "none", ret |-> output, results |-> res]
    ELSE LET r == AnalyseGroup(groups, res, group_name, IllName(Head(illuminants)), TRUE)
         IN IF r.err # "none" THEN [err |-> r.err, ret |-> <<>>, results |-> r.results]
            ELSE IlluminantsLoop(Tail(illuminants), group_name,
                                 MapPut(output, Head(illuminants), r.ret), r.results)

analyse_group_under_illuminants(group_name, illuminants) ==
    /\ calls < MaxCalls
    /\ LET r == IlluminantsLoop(illuminants, group_name, EmptyMap, results)
       IN /\ results' = r.results
          /\ last' = [op |-> "analyse_group_under_illuminants",
                      args |-> <<group_name, illuminants>>, err |-> r.err, ret |-> r.ret]
    /\ calls' = calls + 1
    /\ UNCHANGED <<raw_collections, all_data, averaged_data, groups>>

Temperatures == {5000}

\* blackbody_illuminant(temperature)
blackbody_illuminant(temperature) == SD("blackbody", temperature)

\* analyse_blackbody as a function of the state it reads: [err, ret]; its
\* loop fills the local results dict only
AnalyseBlackbody(grps, group_name, temperature, absorbance) ==
    IF group_name \notin DOMAIN grps THEN [err |-> "KeyError", ret |-> <<>>]
    ELSE LET r == AnalyseLoop(grps[group_name], absorbance,
                              blackbody_illuminant(temperature), ConfigReferenceLab,
                              <<>>, EmptyMap, FALSE)
         IN [err |-> r.err, ret |-> r.ret]

analyse_blackbody(group_name, temperature) ==
    /\ calls < MaxCalls
    /\ LET r == AnalyseBlackbody(groups, group_name, temperature, TRUE)
       IN last' = [op |-> "analyse_blackbody", args |-> <<group_name, temperature>>,
                   err |-> r.err, ret |-> r.ret]
    /\ calls' = calls + 1
    /\ UNCHANGED <<raw_collections, all_data, averaged_data, groups, results>>

Next ==
    \/ \E directories \in DirectoryLists : load_directories(directories)
    \/ load_sample_spectra
    \/ \E gs \in GroupLists : build_groups(gs)
    \/ \E g \in GroupNames, i \in IlluminantArgs : analyse_group(g, i)
    \/ \E g \in GroupNames, is \in IlluminantLists :
           analyse_group_under_illuminants(g, is)
    \/ \E g \in GroupNames, t \in Temperatures : analyse_blackbody(g, t)

Spec == Init /\ [][Next]_vars

\* ------------------------------------------- the collection on its own
\* DatasetCollection as a class of its own: a collection built with add,
\* then queried with averaged and subset.  The collection is held in
\* all_data; the pipeline's other fields stay as constructed.
MaxEntries == 3

kX12 == <<"X", "#", "1", "#", "2">>
TestKeys == {kX1, kX12, kX, kY}

\* entries as the loaders make them: two parsed files of one length, a
\* shorter one, and two inline spectra with integer absorbances
FB == File(<<QInt(400), QInt(500)>>, <<QInt(1), QInt(0)>>)
TestEntries ==
    {DatasetEntry(Parse(F9, "T"), "transmittance", {}),
     DatasetEntry(Parse(F7, "T"), "transmittance", {}),
     DatasetEntry(Parse(F1, "T"), "transmittance", {}),
     DatasetEntry(Parse(FA, "A"), "absorbance", {<<"source", "inline">>}),
     DatasetEntry(Parse(FB, "A"), "absorbance", {})}

TestCollections ==
    UNION {{c \in [1..n -> [key : TestKeys, entry : TestEntries]] :
               \A i, j \in 1..n : i # j => c[i].key # c[j].key} : n \in 0..MaxEntries}

Markers == {<<>>, sHash, <<"#", "1">>, <<"2">>}
SubsetKeyLists == {<<>>, <<kX, kX1>>, <<kX1, kZ, kX>>}

InitCollection ==
    /\ raw_collections = EmptyMap
    /\ all_data \in TestCollections
    /\ averaged_data = EmptyCollection
    /\ groups = EmptyMap
    /\ results = EmptyMap
    /\ last = [op |-> "init", args |-> <<>>, err |-> "none", ret |-> <<>>]
    /\ calls = 0

\* all_data.averaged(suffix), asked of the collection as built
averaged_call(suffix) ==
    /\ last.op = "init"
    /\ LET r == averaged(all_data, suffix)
       IN last' = [op |-> "averaged", args |-> suffix, err |-> r.err, ret |-> r.val]
    /\ UNCHANGED <<raw_collections, all_data, averaged_data, groups, results, calls>>

\* all_data.subset(keys), asked of the collection as built
subset_call(keys) ==
    /\ last.op = "init"
    /\ LET r == subset(all_data, keys)
       IN last' = [op |-> "subset", args |-> keys, err |-> r.err, ret |-> r.val]
    /\ UNCHANGED <<raw_collections, all_data, averaged_data, groups, results, calls>>

\* c.averaged(suffix).averaged(suffix): averaged asked again, with the same
\* marker, of the collection the first call returned
averaged_again ==
    /\ last.op = "averaged" /\ last.err = "none"
    /\ LET r == averaged(last.ret, last.args)
       IN last' = [op |-> "averaged_again", args |-> <<last.args, last.ret>>,
                   err |-> r.err, ret |-> r.val]
    /\ UNCHANGED <<raw_collections, all_data, averaged_data, groups, results, calls>>

NextCollection ==
    \/ \E suffix \in Markers : averaged_call(suffix)
    \/ \E keys \in SubsetKeyLists : subset_call(keys)
    \/ averaged_again

SpecCollection == InitCollection /\ [][NextCollection]_vars

\* every number met is inside the fragment of exact reals
ExactSeq(s) == \A i \in 1..Len(s) : s[i].k # "nar"
ExactRecord(r) ==
    ExactSeq(r.wavelengths) /\ ExactSeq(r.absorbances) /\ ExactSeq(r.transmittances)
ExactCollection(c) == \A i \in 1..Len(c) : ExactRecord(c[i].entry.record)
Exact ==
    /\ ExactCollection(all_data)
    /\ ExactCollection(averaged_data)
    /\ last.op = "averaged" => ExactCollection(last.ret)

\* ------------------------------------------------- analysis functions
QMul(x, y) == IF IsQ(x) /\ IsQ(y) THEN Q(x.n * y.n, x.d * y.d) ELSE NaR
QDiv(x, y) == IF IsQ(x) /\ IsQ(y) /\ y.n # 0 THEN Q(x.n * y.d, x.d * y.n) ELSE NaR

\* np.clip(x, 0, 1)
Clip01(x) == IF QLess(x, QInt(0)) THEN QInt(0) ELSE IF QLess(QInt(1), x) THEN QInt(1) ELSE x

\* rounding of a non-negative n/d with halves going up
RoundHalfUp(x) == (2 * x.n + x.d) \div (2 * x.d)

\* int(round(x)) for a non-negative n/d: halves go to the even neighbour
RoundHalfEven(x) ==
    LET low == x.n \div x.d
        rest == x.n % x.d
    IN IF 2 * rest < x.d THEN low
       ELSE IF 2 * rest > x.d THEN low + 1
       ELSE IF low % 2 = 0 THEN low ELSE low + 1

\* "{:02x}".format(n)
HexDigit(n) ==
    <<"0", "1", "2", "3", "4", "5", "6", "7", "8", "9", "a", "b", "c", "d", "e", "f">>[n + 1]
RECURSIVE HexDigits(_)
HexDigits(n) == IF n < 16 THEN <<HexDigit(n)>> ELSE HexDigits(n \div 16) \o <<HexDigit(n % 16)>>
Hex02(n) == IF n < 16 THEN <<"0", HexDigit(n)>> ELSE HexDigits(n)

\* rgb_to_hex
rgb_to_hex(rgb) ==
    LET clipped == [i \in 1..Len(rgb) |-> Clip01(rgb[i])]
        ints == [i \in 1..Len(rgb) |-> RoundHalfEven(QMul(clipped[i], QInt(255)))]
    IN <<"#">> \o Hex02(ints[1]) \o Hex02(ints[2]) \o Hex02(ints[3])

\* the distances with the sum of rgb divided by 3 only
compute_colour_distancesOverThree(rgb) ==
    LET reference_rgb == <<Q(68, 255), Q(77, 255), Q(55, 255)>>
    IN [decolouring |->
            QMul(QDiv(QSub(SumSeq(rgb), SumSeq(reference_rgb)), QInt(3)), QInt(100)),
        white_distance |->
            QMul(QSub(QInt(1), QDivInt(SumSeq(rgb), Len(rgb))), QInt(100))]

\* ColourimetryPipeline._compute_colour_distances
compute_colour_distances(rgb) ==
    LET reference_rgb == <<Q(68, 255), Q(77, 255), Q(55, 255)>>
    IN [decolouring |->
            QMul(QDiv(QSub(SumSeq(rgb), SumSeq(reference_rgb)),
                      QSub(QInt(3), SumSeq(reference_rgb))), QInt(100)),
        white_distance |->
            QMul(QSub(QInt(1), QDivInt(SumSeq(rgb), Len(rgb))), QInt(100))]

\* np.linalg.norm(v): the square root of the sum of squares, kept as the
\* real sqrt(n/d)
Norm(v) ==
    LET squares == [i \in 1..Len(v) |-> QMul(v[i], v[i])]
        total == SumSeq(squares)
    IN [k |-> "sqrt", n |-> total.n, d |-> total.d]

\* a[lo:hi] for 0 <= lo <= hi
Slice(a, lo, hi) == SubSeq(a, lo + 1, IF hi < Len(a) THEN hi ELSE Len(a))
VecSub(a, b) == [i \in 1..Len(a) |-> QSub(a[i], b[i])]

\* delta_e
delta_e(sample_lab, reference_lab) == Norm(VecSub(sample_lab, reference_lab))

\* a delta_c over the slice [0:2]
delta_cFirstTwo(sample_lab, reference_lab) ==
    Norm(VecSub(Slice(sample_lab, 0, 2), Slice(reference_lab, 0, 2)))

\* delta_c
delta_c(sample_lab, reference_lab) ==
    Norm(VecSub(Slice(sample_lab, 1, 3), Slice(reference_lab, 1, 3)))

\* --------------------------------------------- the functions on their own
\* The module-level functions and the parser, each called once on an input
\* drawn from a bounded set; the call and what it gave are held in last.
MaxSamples == 3

\* what specread may return: up to MaxSamples (wavelength, amplitude) samples
TestWavelengths == {QInt(249), QInt(250), QInt(400), QInt(800), QInt(801), Q(901, 2)}
TestAmplitudes == {QInt(0), Q(1, 2)}
TestFiles ==
    UNION {{File([i \in 1..n |-> s[i][1]], [i \in 1..n |-> s[i][2]]) :
               s \in [1..n -> TestWavelengths \X TestAmplitudes]} : n \in 0..MaxSamples}
Modes == {"A", "T", "R"}

InitFunctions ==
    /\ raw_collections = EmptyMap
    /\ all_data = EmptyCollection
    /\ averaged_data = EmptyCollection
    /\ groups = EmptyMap
    /\ results = EmptyMap
    /\ last = [op |-> "init", args |-> <<>>, err |-> "none", ret |-> <<>>]
    /\ calls = 0

\* SpcFileParser(filename, mode).parse()
parse_call(file, mode) ==
    /\ last.op = "init"
    /\ last' = [op |-> "parse", args |-> <<file, mode>>, err |-> "none",
                ret |-> Parse(file, mode)]
    /\ UNCHANGED <<raw_collections, all_data, averaged_data, groups, results, calls>>

\* rgb channel values: below, inside and above [0, 1], some with val * 255
\* halfway between two integers (1/510, 1/170, 1/102, 1/2)
TestChannels == {Q(-1, 2), QInt(0), Q(1, 510), Q(1, 170), Q(1, 102), Q(68, 255),
                 Q(77, 255), Q(55, 255), Q(1, 2), QInt(1), QInt(2)}
TestRgb == {<<r, g, b>> : r \in TestChannels, g \in TestChannels, b \in TestChannels}

\* L*a*b* triples
TestLabValues == {QInt(-1), QInt(0), QInt(2)}
TestLab == {<<l, a, b>> : l \in TestLabValues, a \in TestLabValues, b \in TestLabValues}

\* rgb_to_hex(rgb)
rgb_to_hex_call(rgb) ==
    /\ last.op = "init"
    /\ last' = [op |-> "rgb_to_hex", args |-> rgb, err |-> "none", ret |-> rgb_to_hex(rgb)]
    /\ UNCHANGED <<raw_collections, all_data, averaged_data, groups, results, calls>>

\* ColourimetryPipeline._compute_colour_distances(rgb)
colour_distances_call(rgb) ==
    /\ last.op = "init"
    /\ last' = [op |-> "_compute_colour_distances", args |-> rgb, err |-> "none",
                ret |-> compute_colour_distances(rgb)]
    /\ UNCHANGED <<raw_collections, all_data, averaged_data, groups, results, calls>>

\* delta_e(a, b) and delta_c(a, b)
delta_call(sample_lab, reference_lab) ==
    /\ last.op = "init"
    /\ last' = [op |-> "delta", args |-> <<sample_lab, reference_lab>>, err |-> "none",
                ret |-> [delta_e |-> delta_e(sample_lab, reference_lab),
                         delta_c |-> delta_c(sample_lab, reference_lab)]]
    /\ UNCHANGED <<raw_collections, all_data, averaged_data, groups, results, calls>>

\* spectra handed to spectrum_to_xyz: lists of up to MaxSamples pairs, and
\* the generator of a record's pairs
TestPairs == {QInt(359), QInt(360), QInt(500), QInt(800), QInt(801)} \X {QInt(0), QInt(1)}
TestSpectra ==
    UNION {{ListOf(s) : s \in [1..n -> TestPairs]} : n \in 0..MaxSamples}
        \cup {as_pairs(Parse(FA, "A"), "absorbance")}

\* spectrum_to_xyz(spectrum, absorbance, illuminant)
spectrum_to_xyz_call(spectrum, absorbance) ==
    /\ last.op = "init"
    /\ LET r == spectrum_to_xyz(spectrum, absorbance, SD("D65", 0))
       IN last' = [op |-> "spectrum_to_xyz", args |-> <<spectrum, absorbance>>,
                   err |-> r.err, ret |-> r.sd]
    /\ UNCHANGED <<raw_collections, all_data, averaged_data, groups, results, calls>>

NextFunctions ==
    \/ \E file \in TestFiles, mode \in Modes : parse_call(file, mode)
    \/ \E rgb \in TestRgb : rgb_to_hex_call(rgb)
    \/ \E rgb \in TestRgb : colour_distances_call(rgb)
    \/ \E a \in TestLab, b \in TestLab : delta_call(a, b)
    \/ \E spectrum \in TestSpectra, absorbance \in BOOLEAN :
           spectrum_to_xyz_call(spectrum, absorbance)

SpecFunctions == InitFunctions /\ [][NextFunctions]_vars

\* ================================================================ claims
\* the text of key before the first place where the marker s occurs, read
\* off the characters of key (the whole key when s occurs nowhere)
Splits(key, s) ==
    {a \in 0..Len(key) : a + Len(s) <= Len(key) /\ \A j \in 1..Len(s) : key[a + j] = s[j]}
ClaimRoot(key, s) ==
    IF s = <<>> \/ Splits(key, s) = {} THEN key
    ELSE SubSeq(key, 1, CHOOSE a \in Splits(key, s) : \A b \in Splits(key, s) : a <= b)

\* the entries of c whose key has the given root, in order
MembersOf(c, s, root) ==
    LET Test(x) == ClaimRoot(x.key, s) = root IN SelectSeq(c, Test)
ClaimRoots(c, s) == {ClaimRoot(c[i].key, s) : i \in 1..Len(c)}

QMulInt(x, c) == IF IsQ(x) THEN Q(x.n * c, x.d) ELSE NaR

\* x is the arithmetic mean of the values vs
IsMeanOf(x, vs) == IsQ(x) /\ QMulInt(x, Len(vs)) = SumSeq(vs)

\* entry e is the mean of the replicates ms, index by index
IsMerged(e, ms) ==
    LET n == Len(ms[1].entry.record.transmittances)
    IN /\ Len(e.record.transmittances) = n
       /\ Len(e.record.wavelengths) = n
       /\ Len(e.record.absorbances) = n
       /\ \A i \in 1..n :
            /\ IsMeanOf(e.record.transmittances[i],
                        [j \in 1..Len(ms) |-> ms[j].entry.record.transmittances[i]])
            /\ IsMeanOf(e.record.wavelengths[i],
                        [j \in 1..Len(ms) |-> ms[j].entry.record.wavelengths[i]])
            /\ (e.record.transmittances[i].n > 0 =>
                  e.record.absorbances[i] = NegLog10(e.record.transmittances[i]))

\* C1: whenever averaged returns a collection, every root shared by two or
\* more entries has exactly one entry in it, whose transmittance and
\* wavelength at each index are the arithmetic means over the replicates and
\* whose absorbance is -log10 of that mean transmittance (where it is positive).
C1_AveragedIsMeanTransmittance ==
    (last.op = "averaged" /\ last.err = "none") =>
        \A root \in ClaimRoots(all_data, last.args) :
            LET ms == MembersOf(all_data, last.args, root)
            IN Len(ms) >= 2 =>
                 /\ Cardinality({j \in 1..Len(last.ret) : last.ret[j].key = root}) = 1
                 /\ IsMerged(EntryOf(last.ret, root), ms)

\* C1 witness: two replicates with rational absorbances were merged and the
\* merged absorbance is not the mean of their absorbances.
C1_Witness ==
    /\ last.op = "averaged" /\ last.err = "none" /\ last.args = sHash
    /\ \E root \in ClaimRoots(all_data, sHash) :
         LET ms == MembersOf(all_data, sHash, root)
         IN /\ Len(ms) = 2
            /\ Has(last.ret, root)
            /\ LET m == QDivInt(QAdd(ms[1].entry.record.absorbances[1],
                                     ms[2].entry.record.absorbances[1]), 2)
               IN IsQ(m) /\ EntryOf(last.ret, root).record.absorbances[1] # m

\* the returned collection has one entry per distinct root, and a root with
\* a single member keeps that member's entry
OnePerRoot(c, s, ret) ==
    /\ \A i, j \in 1..Len(ret) : ret[i].key = ret[j].key => i = j
    /\ Keys(ret) = ClaimRoots(c, s)
    /\ \A root \in ClaimRoots(c, s) :
         LET ms == MembersOf(c, s, root)
         IN Len(ms) = 1 => EntryOf(ret, root) = ms[1].entry

\* the replicates of every root have arrays of one length
EqualLengths(c, s) ==
    \A i, j \in 1..Len(c) :
        ClaimRoot(c[i].key, s) = ClaimRoot(c[j].key, s) =>
            /\ Len(c[i].entry.record.wavelengths) = Len(c[j].entry.record.wavelengths)
            /\ Len(c[i].entry.record.transmittances) = Len(c[j].entry.record.transmittances)

\* C2 as stated: for every collection and non-empty marker averaged returns
\* one entry per distinct root (first-occurrence split, singletons unchanged).
C2_Original ==
    (last.op = "averaged" /\ last.args # <<>>) =>
        last.err = "none" /\ OnePerRoot(all_data, last.args, last.ret)

\* C2 amended: for a non-empty marker, when the replicates of every root have
\* arrays of one length averaged returns one entry per distinct root
\* (first-occurrence split, singletons unchanged); otherwise it raises
\* ValueError and returns no collection.
C2_OneEntryPerRoot ==
    (last.op = "averaged" /\ last.args # <<>>) =>
        IF EqualLengths(all_data, last.args)
        THEN last.err = "none" /\ OnePerRoot(all_data, last.args, last.ret)
        ELSE last.err = "ValueError"

\* C2 witness: a key holding the marker twice was grouped under the text
\* before the first one, beside a root with one member.
C2_Witness ==
    /\ last.op = "averaged" /\ last.err = "none" /\ last.args = sHash
    /\ Has(all_data, kX12) /\ Has(all_data, kY)
    /\ Keys(last.ret) = {kX, kY}
    /\ EntryOf(last.ret, kX) = EntryOf(all_data, kX12)

\* ------------------------------------------------- claims on the pipeline
\* the group list a build_groups call works through
GroupsOf(l) == IF l.args = <<>> THEN ConfigGroups ELSE l.args
KnownSource(source) == source \in {sAll, sAveraged}
PoolOf(source, all, avg) == IF source = sAll THEN all ELSE avg

\* the groups of the list that lie before the first unknown source tag
Processed(gs) == {i \in 1..Len(gs) : \A j \in 1..i : KnownSource(gs[j].source)}
Targets(g) == {g.extra_assignments[i].key : i \in 1..Len(g.extra_assignments)}

\* the entries a descriptor text names: pool name, colon, key held by the pool
ResolvesTo(descriptor, all, avg) ==
    {EntryOf(PoolOf(p, all, avg), SubSeq(descriptor, Len(p) + 2, Len(descriptor))) :
        p \in {q \in {sAll, sAveraged} :
                  /\ Len(descriptor) > Len(q)
                  /\ SubSeq(descriptor, 1, Len(q) + 1) = q \o sColon
                  /\ Has(PoolOf(q, all, avg),
                         SubSeq(descriptor, Len(q) + 2, Len(descriptor)))}}

\* C3: after build_groups, a list whose source tags are all known raised no
\* error, and the subset stored for each group holds every listed key that
\* its source pool holds (with the pool's entry unless an assignment targets
\* the key) and holds no listed key that the pool lacks (unless an assignment
\* targets it).
C3_AbsentKeyOmitted ==
    last.op = "build_groups" =>
        LET gs == GroupsOf(last)
        IN /\ (\A i \in 1..Len(gs) : KnownSource(gs[i].source)) => last.err = "none"
           /\ \A i \in Processed(gs) :
                LET g == gs[i]
                    pool == PoolOf(g.source, all_data, averaged_data)
                IN /\ g.name \in DOMAIN groups
                   /\ \A k \in Range(g.keys) :
                        IF Has(pool, k)
                        THEN /\ Has(groups[g.name], k)
                             /\ k \notin Targets(g) =>
                                  EntryOf(groups[g.name], k) = EntryOf(pool, k)
                        ELSE k \notin Targets(g) => ~Has(groups[g.name], k)

\* C3 witness: build_groups returned for a group listing a key its pool
\* holds and a key its pool lacks; the first is stored, the second is not.
C3_Witness ==
    /\ last.op = "build_groups" /\ last.err = "none"
    /\ \E i \in 1..Len(GroupsOf(last)) :
         LET g == GroupsOf(last)[i]
             pool == PoolOf(g.source, all_data, averaged_data)
         IN /\ \E k \in Range(g.keys) : Has(pool, k) /\ Has(groups[g.name], k)
            /\ \E k \in Range(g.keys) : ~Has(pool, k) /\ ~Has(groups[g.name], k)

\* an illuminant argument that is a name outside the configured table
UnknownIlluminant(illuminant) ==
    illuminant.str /\ illuminant.v.sd \notin DOMAIN ConfigIlluminants

\* C4: an analyse_group call naming a group that is not built, or an
\* illuminant name outside the configured table, raises KeyError, returns
\* nothing and leaves results as it was; a build_groups call meeting a
\* source tag other than "all" and "averaged" raises ValueError and stores
\* nothing under that group's name.
C4_LookupFailuresRaise ==
    [][/\ (last'.op = "analyse_group"
             /\ (last'.args[1] \notin DOMAIN groups \/ UnknownIlluminant(last'.args[2])))
          => (last'.err = "KeyError" /\ last'.ret = <<>> /\ results' = results)
       /\ (last'.op = "build_groups"
             /\ \E i \in 1..Len(GroupsOf(last')) : ~KnownSource(GroupsOf(last')[i].source))
          => /\ last'.err = "ValueError"
             /\ \A i \in 1..Len(GroupsOf(last')) :
                  LET n == GroupsOf(last')[i].name
                  IN (i \notin Processed(GroupsOf(last')) /\ i - 1 \in Processed(GroupsOf(last')) \cup {0})
                       => /\ n \in DOMAIN groups' => n \in DOMAIN groups
                          /\ n \in DOMAIN groups => groups'[n] = groups[n]]_vars

\* C4 witness: analyse_group raised KeyError for a built, non-empty group
\* because of the illuminant name.
C4_Witness ==
    /\ last.op = "analyse_group" /\ last.err = "KeyError"
    /\ last.args[1] \in DOMAIN groups
    /\ groups[last.args[1]] # EmptyCollection
    /\ UnknownIlluminant(last.args[2])

\* C5: after build_groups, no error came from an assignment (the call
\* failed only on an unknown source tag); in each stored group an assignment
\* whose descriptor names a pool and a key that pool holds put that entry
\* under its target, an assignment that does not resolve added nothing (its
\* target is held only when it is a listed key the source pool holds), and
\* every listed key the source pool holds is in the group.
C5_UnresolvedAssignmentSkipped ==
    last.op = "build_groups" =>
        LET gs == GroupsOf(last)
        IN /\ last.err = "none" \/ \E i \in 1..Len(gs) : ~KnownSource(gs[i].source)
           /\ \A i \in Processed(gs) :
                LET g == gs[i]
                    pool == PoolOf(g.source, all_data, averaged_data)
                IN /\ g.name \in DOMAIN groups
                   /\ Keys(groups[g.name]) \subseteq Range(g.keys) \cup Targets(g)
                   /\ \A k \in Range(g.keys) : Has(pool, k) => Has(groups[g.name], k)
                   /\ \A a \in 1..Len(g.extra_assignments) :
                        LET target == g.extra_assignments[a].key
                            found == ResolvesTo(g.extra_assignments[a].entry,
                                                all_data, averaged_data)
                        IN IF found # {}
                           THEN /\ Has(groups[g.name], target)
                                /\ EntryOf(groups[g.name], target) \in found
                           ELSE Has(groups[g.name], target) =>
                                  /\ target \in Range(g.keys)
                                  /\ Has(pool, target)
                                  /\ EntryOf(groups[g.name], target) = EntryOf(pool, target)

\* C5 witness: build_groups stored g2 with the listed key X and the
\* resolved target X#2, and without the targets of the malformed descriptor
\* (V), of the unknown pool (W, though the raw pool holds Y) and of the
\* absent key (U).
C5_Witness ==
    /\ last.op = "build_groups" /\ last.err = "none"
    /\ \E i \in 1..Len(GroupsOf(last)) : GroupsOf(last)[i] = G2
    /\ Has(all_data, kY)
    /\ Has(groups["g2"], kX) /\ Has(groups["g2"], kX2)
    /\ ~Has(groups["g2"], <<"V">>)
    /\ ~Has(groups["g2"], <<"W">>)
    /\ ~Has(groups["g2"], <<"U">>)

\* the directory list a load_directories call works through
DirectoriesOf(l) == IF l.args = <<>> THEN ConfigDirectories ELSE l.args

\* the files a load_directories call reads: directory index, listing index
FilesRead(dirs) ==
    {p \in (1..Len(dirs)) \X (1..3) :
        /\ Exists(dirs[p[1]].path)
        /\ p[2] <= Len(Listing(dirs[p[1]].path))
        /\ Lower(Listing(dirs[p[1]].path)[p[2]].suffix) = Lower(dirs[p[1]].extension)}

\* key and entry of what a load call produces, a later file of one stem
\* replacing an earlier one
Produced(l) ==
    IF l.op = "load_sample_spectra"
    THEN {<<SampleName(i),
            DatasetEntry(SpectralRecord(SAMPLE_SPECTRA[i][1], SAMPLE_SPECTRA[i][2],
                                        [j \in 1..Len(SAMPLE_SPECTRA[i][2]) |->
                                            Pow10Neg(SAMPLE_SPECTRA[i][2][j])]),
                         "absorbance", {<<"source", "inline">>})>> :
             i \in 1..Len(SAMPLE_SPECTRA)}
    ELSE LET dirs == DirectoriesOf(l)
             Item(p) == Listing(dirs[p[1]].path)[p[2]]
         IN {<<Item(p).stem,
               DatasetEntry(Parse(Item(p).file, Upper(dirs[p[1]].mode)),
                            dirs[p[1]].measurement, {})>> :
                p \in {q \in FilesRead(dirs) :
                          \A r \in FilesRead(dirs) :
                              Item(r).stem = Item(q).stem => r[1] <= q[1]}}
ProducedKeys(l) == {p[1] : p \in Produced(l)}
IsLoad(l) == l.op \in {"load_directories", "load_sample_spectra"}

\* C6 as stated: after a load call returns, the raw pool holds exactly the
\* entries that call produced and the averaged pool exactly their roots.
C6_Original ==
    (IsLoad(last) /\ last.err = "none") =>
        /\ AsMap(all_data) = Produced(last)
        /\ Keys(averaged_data) = {ClaimRoot(k, sHash) : k \in ProducedKeys(last)}

\* C6 amended: a load call that returns adds to the raw pool: all_data keeps
\* every entry it held whose key the call did not produce, and holds each
\* produced entry under its key; the averaged pool is rebuilt whole from
\* that accumulated raw pool (left as it was when the raw pool is empty).
C6_LoadAccumulates ==
    [][(IsLoad(last') /\ last'.err = "none") =>
          /\ AsMap(all_data') =
                {e \in AsMap(all_data) : e[1] \notin ProducedKeys(last')}
                    \cup Produced(last')
          /\ IF all_data' = EmptyCollection THEN averaged_data' = averaged_data
             ELSE /\ averaged(all_data', sHash).err = "none"
                  /\ AsMap(averaged_data') = AsMap(averaged(all_data', sHash).val)]_vars

\* C6 witness: load_sample_spectra returned after a directory load; all_data
\* holds the earlier load's X#1 beside sample_01, the averaged pool its root X.
C6_Witness ==
    /\ last.op = "load_sample_spectra" /\ last.err = "none"
    /\ Has(all_data, kX1) /\ Has(all_data, SampleName(1))
    /\ Has(averaged_data, kX) /\ Has(averaged_data, SampleName(1))

GroupNamesOf(l) == {GroupsOf(l)[i].name : i \in 1..Len(GroupsOf(l))}

\* the entries held by the two pools
PoolEntries(all, avg) ==
    {all[i].entry : i \in 1..Len(all)} \cup {avg[i].entry : i \in 1..Len(avg)}

\* C7 as stated: after build_groups(G) returns, the groups map holds exactly
\* the groups named in G.
C7_Original ==
    (last.op = "build_groups" /\ last.err = "none") => DOMAIN groups = GroupNamesOf(last)

\* C7 amended: build_groups(G) rebuilds only the groups named in G: after it
\* returns, the groups map holds the names it held before together with the
\* names in G, every group not named in G is as it was, and every group
\* named in G holds only entries of the current pools.
C7_BuildKeepsOtherGroups ==
    [][(last'.op = "build_groups" /\ last'.err = "none") =>
          /\ DOMAIN groups' = DOMAIN groups \cup GroupNamesOf(last')
          /\ \A n \in DOMAIN groups \ GroupNamesOf(last') : groups'[n] = groups[n]
          /\ \A n \in GroupNamesOf(last') :
                \A i \in 1..Len(groups'[n]) :
                    groups'[n][i].entry \in PoolEntries(all_data, averaged_data)]_vars

\* C7 witness: build_groups returned, and a non-empty group that its list
\* does not name is in the groups map beside one it names.
C7_Witness ==
    /\ last.op = "build_groups" /\ last.err = "none"
    /\ \E n \in DOMAIN groups \ GroupNamesOf(last) : groups[n] # EmptyCollection
    /\ GroupNamesOf(last) # {}

\* the spectral distribution an illuminant argument stands for
IlluminantOf(illuminant) ==
    IF illuminant.str THEN SD(ConfigIlluminants[illuminant.v.sd].sd, 0) ELSE illuminant.v

\* r is the result for sample k of group g under the distribution sd: it
\* carries the name k and the metrics of the entry's absorbance pairs
IsResultFor(r, g, k, sd) ==
    LET record == EntryOf(g, k).record
        pairs == [i \in 1..Len(record.wavelengths) |->
                     <<record.wavelengths[i], record.absorbances[i]>>]
    IN /\ r.name = k
       /\ r.metrics.illuminant = sd
       /\ r.metrics.sd = spectrum_to_xyz(ListOf(pairs), TRUE, sd).sd
       /\ r.metrics.reference_lab = ConfigReferenceLab

C9_CrossProduct ==
    (/\ last.op = "analyse_group_under_illuminants"
     /\ last.args[1] \in DOMAIN groups
     /\ Range(last.args[2]) \subseteq DOMAIN ConfigIlluminants) =>
        LET g == groups[last.args[1]]
        IN /\ last.err = "none"
           /\ DOMAIN last.ret = Range(last.args[2])
           /\ \A name \in DOMAIN last.ret :
                /\ KeySeq(last.ret[name]) = KeySeq(g)
                /\ \A k \in Keys(g) :
                     IsResultFor(EntryOf(last.ret[name], k), g, k,
                                 SD(ConfigIlluminants[name].sd, 0))

\* C18: after analyse_blackbody on a built group, the call has returned one
\* result per entry of the group, keyed by sample name and computed under
\* the blackbody illuminant of the given temperature, and results holds
\* that result for each of those keys.
C18_Original ==
    (last.op = "analyse_blackbody" /\ last.args[1] \in DOMAIN groups) =>
        LET g == groups[last.args[1]]
        IN /\ last.err = "none"
           /\ KeySeq(last.ret) = KeySeq(g)
           /\ \A k \in Keys(g) :
                /\ IsResultFor(EntryOf(last.ret, k), g, k,
                               blackbody_illuminant(last.args[2]))
                /\ k \in DOMAIN results
                /\ results[k] = EntryOf(last.ret, k)

\* ---------------------------------------------- claims on the functions
\* the samples of a file as (wavelength, absorbance, transmittance) triples
SamplesOf(file, mode) ==
    [i \in 1..Len(file.wavelength) |->
        <<file.wavelength[i], Convert(mode, file.amplitudes).a[i],
          Convert(mode, file.amplitudes).t[i]>>]
TriplesOf(record) ==
    [i \in 1..Len(record.wavelengths) |->
        <<record.wavelengths[i], record.absorbances[i], record.transmittances[i]>>]
IntegerInBand(w) == IsQ(w) /\ w.d = 1 /\ w.n >= 250 /\ w.n <= 800

\* C11: the record parse returns has three sequences of one length; each
\* (wavelength, absorbance, transmittance) triple occurs in it as often as
\* among the file's samples with an integer wavelength in [250, 800], so
\* those samples are kept with their own values and all others dropped; and
\* the wavelengths are in ascending order.
C11_ParseFiltersAndSorts ==
    last.op = "parse" =>
        LET samples == SamplesOf(last.args[1], last.args[2])
            record == last.ret
            kept == TriplesOf(record)
        IN /\ Len(record.absorbances) = Len(record.wavelengths)
           /\ Len(record.transmittances) = Len(record.wavelengths)
           /\ \A x \in Range(samples) \cup Range(kept) :
                Cardinality({i \in 1..Len(kept) : kept[i] = x}) =
                    IF IntegerInBand(x[1])
                    THEN Cardinality({j \in 1..Len(samples) : samples[j] = x})
                    ELSE 0
           /\ \A i, j \in 1..Len(kept) :
                i < j => QLeq(record.wavelengths[i], record.wavelengths[j])

\* C11 witness: a file with 800, 249 and 250 in that order was parsed and
\* the record holds 250 then 800.
C11_Witness ==
    /\ last.op = "parse"
    /\ last.args[1].wavelength = <<QInt(800), QInt(249), QInt(250)>>
    /\ last.ret.wavelengths = <<QInt(250), QInt(800)>>

\* the records held in the two pools
PoolRecords == {all_data[i].entry.record : i \in 1..Len(all_data)}
                   \cup {averaged_data[i].entry.record : i \in 1..Len(averaged_data)}
InBand(w) == IsQ(w) /\ QLeq(QInt(250), w) /\ QLeq(w, QInt(800))

\* C12 as stated: every record in the pools has wavelengths in strictly
\* ascending order (ascending, none twice) within [250, 800].
C12_Original ==
    \A record \in PoolRecords :
        /\ \A i \in 1..Len(record.wavelengths) : InBand(record.wavelengths[i])
        /\ \A i, j \in 1..Len(record.wavelengths) :
             i < j => QLess(record.wavelengths[i], record.wavelengths[j])

\* C12 amended: every record that comes from the directories (parsed, or
\* averaged from parsed replicates) has wavelengths within [250, 800] in
\* non-decreasing order, a wavelength that a file repeats being kept as
\* often as it occurs, and a parsed record's wavelengths are integers; a
\* record of load_sample_spectra has the inline wavelengths as they are given.
C12_AscendingInBandNotDeduplicated ==
    /\ \A i \in 1..Len(all_data) :
         LET entry == all_data[i].entry
             ws == entry.record.wavelengths
         IN IF entry.metadata = {}
            THEN /\ \A j \in 1..Len(ws) : IntegerInBand(ws[j])
                 /\ \A j, k \in 1..Len(ws) : j < k => QLeq(ws[j], ws[k])
            ELSE \E n \in 1..Len(SAMPLE_SPECTRA) :
                    all_data[i].key = SampleName(n) /\ ws = SAMPLE_SPECTRA[n][1]
    /\ \A i \in 1..Len(averaged_data) :
         LET entry == averaged_data[i].entry
             ws == entry.record.wavelengths
         IN entry.metadata = {} =>
                /\ \A j \in 1..Len(ws) : InBand(ws[j])
                /\ \A j, k \in 1..Len(ws) : j < k => QLeq(ws[j], ws[k])

\* C12 witness: the raw pool holds a parsed record in which 400 occurs
\* twice, and the averaged pool the mean of two such replicates.
C12_Witness ==
    /\ Has(all_data, kY1) /\ Has(averaged_data, kY) /\ ~Has(all_data, kY)
    /\ EntryOf(all_data, kY1).record.wavelengths = <<QInt(400), QInt(400), QInt(500)>>
    /\ EntryOf(averaged_data, kY).record.wavelengths = <<QInt(400), QInt(400), QInt(500)>>

\* T is at or below the floor 1e-12 of the clip
BelowClip(t) ==
    \/ t.k = "q" /\ t.n <= 0
    \/ t.k = "pow" /\ t.d > 0 /\ t.n > 12 * t.d

\* C13 as stated: in every record of the pools, at every index,
\* transmittance = 10^(-absorbance).
C13_Original ==
    \A record \in PoolRecords :
        \A i \in 1..Len(record.transmittances) :
            record.transmittances[i] = Pow10Neg(record.absorbances[i])

\* C13 amended: in every record of the pools transmittance = 10^(-absorbance)
\* holds at every index whose transmittance exceeds 1e-12; at an index whose
\* transmittance is zero, negative or below 1e-12 the record either keeps
\* the identity (modes A and R and load_sample_spectra, which compute the
\* transmittance from the absorbance) or has absorbance 12 = -log10(1e-12)
\* beside the unclipped transmittance (mode T and averaging), where the
\* identity fails.
C13_IdentityAboveClip ==
    \A record \in PoolRecords :
        \A i \in 1..Len(record.transmittances) :
            IF BelowClip(record.transmittances[i])
            THEN \/ record.transmittances[i] = Pow10Neg(record.absorbances[i])
                 \/ record.absorbances[i] = QInt(12)
            ELSE record.transmittances[i] = Pow10Neg(record.absorbances[i])

\* C13 witness: a parsed record and an averaged one with transmittance 0 and
\* absorbance 12 at an index, beside a record of mode R in the raw pool.
C13_Witness ==
    /\ \E i \in 1..Len(all_data) :
         \E j \in 1..Len(all_data[i].entry.record.transmittances) :
            /\ all_data[i].entry.record.transmittances[j] = QInt(0)
            /\ all_data[i].entry.record.absorbances[j] = QInt(12)
    /\ \E i \in 1..Len(averaged_data) :
         \E j \in 1..Len(averaged_data[i].entry.record.transmittances) :
            /\ averaged_data[i].entry.record.transmittances[j] = QInt(0)
            /\ averaged_data[i].entry.record.absorbances[j] = QInt(12)
    /\ "d" \in DOMAIN raw_collections

\* the number a text of hex digits 0-9a-f writes (-1: some other character)
HexValue(c) ==
    IF c \in {"0", "1", "2", "3", "4", "5", "6", "7", "8", "9", "a", "b", "c", "d", "e", "f"}
    THEN (CHOOSE n \in 0..15 : HexDigit(n) = c) ELSE -1
ChannelOf(text, i) == 16 * HexValue(text[2 * i]) + HexValue(text[2 * i + 1])
IsHexColour(text) ==
    /\ Len(text) = 7 /\ text[1] = "#"
    /\ \A i \in 2..7 : HexValue(text[i]) >= 0

\* the channel scaled to [0, 255]: clipped to [0, 1], times 255
ScaledChannel(x) ==
    IF x.n <= 0 THEN QInt(0) ELSE IF x.n >= x.d THEN QInt(255) ELSE Q(255 * x.n, x.d)

\* C14 as stated: the result is '#' and six hex digits, each channel the
\* integer nearest to its scaled value with a halfway value going up.
C14_Original ==
    last.op = "rgb_to_hex" =>
        /\ IsHexColour(last.ret)
        /\ \A i \in 1..3 :
             LET s == ScaledChannel(last.args[i])
                 v == ChannelOf(last.ret, i)
             IN /\ 2 * Abs(v * s.d - s.n) <= s.d
                /\ 2 * Abs(v * s.d - s.n) = s.d => v * s.d > s.n

\* C14 amended: the result is '#' and six hex digits 0-9a-f; each channel is
\* an integer nearest to the clipped channel times 255, and when that value
\* lies halfway between two integers it is the even one of the two;
\* (1,0,0) gives "#ff0000" and (0,0,0) gives "#000000".
C14_HexRoundsHalfToEven ==
    last.op = "rgb_to_hex" =>
        /\ IsHexColour(last.ret)
        /\ \A i \in 1..3 :
             LET s == ScaledChannel(last.args[i])
                 v == ChannelOf(last.ret, i)
             IN /\ 2 * Abs(v * s.d - s.n) <= s.d
                /\ 2 * Abs(v * s.d - s.n) = s.d => v % 2 = 0
        /\ last.args = <<QInt(1), QInt(0), QInt(0)>> =>
             last.ret = <<"#", "f", "f", "0", "0", "0", "0">>
        /\ last.args = <<QInt(0), QInt(0), QInt(0)>> =>
             last.ret = <<"#", "0", "0", "0", "0", "0", "0">>

\* C14 witness: channels scaled to 0.5, 1.5 and 127.5 were rendered as 00,
\* 02 and 80.
C14_Witness ==
    /\ last.op = "rgb_to_hex"
    /\ last.args = <<Q(1, 510), Q(1, 170), Q(1, 2)>>
    /\ last.ret = <<"#", "0", "0", "0", "2", "8", "0">>

\* C15: decolouring * (3 - sum(ref)) = (sum(rgb) - sum(ref)) * 100 with
\* ref = (68, 77, 55)/255, and white_distance + mean(rgb) * 100 = 100;
\* rgb = (1,1,1) gives (100, 0) and rgb = ref gives decolouring 0.
C15_ColourDistances ==
    last.op = "_compute_colour_distances" =>
        LET rgb == last.args
            total == QAdd(rgb[1], QAdd(rgb[2], rgb[3]))
            ref == Q(68 + 77 + 55, 255)
        IN /\ QMul(last.ret.decolouring, QSub(QInt(3), ref))
                = QMul(QSub(total, ref), QInt(100))
           /\ QAdd(last.ret.white_distance, QMul(QDivInt(total, 3), QInt(100))) = QInt(100)
           /\ rgb = <<QInt(1), QInt(1), QInt(1)>> =>
                last.ret = [decolouring |-> QInt(100), white_distance |-> QInt(0)]
           /\ rgb = <<Q(68, 255), Q(77, 255), Q(55, 255)>> =>
                last.ret.decolouring = QInt(0)

\* C15 witness: the distances of a triple that is neither white nor the
\* reference, with a decolouring strictly between 0 and 100.
C15_Witness ==
    /\ last.op = "_compute_colour_distances"
    /\ last.args = <<QInt(1), Q(1, 2), Q(68, 255)>>
    /\ QLess(QInt(0), last.ret.decolouring) /\ QLess(last.ret.decolouring, QInt(100))
    /\ QLess(QInt(0), last.ret.white_distance)

\* the squared Euclidean distance of two vectors of one length
SquaredDistance(a, b) ==
    SumSeq([i \in 1..Len(a) |-> QMul(QSub(a[i], b[i]), QSub(a[i], b[i]))])

\* C16: delta_e(A, B) = delta_e(B, A); delta_c(A, B) is the distance of the
\* (a*, b*) pairs, equals delta_e((0, a_A, b_A), (0, a_B, b_B)) and is the
\* same whatever the two L* values are.
C16_DeltaSymmetricAndPlanar ==
    last.op = "delta" =>
        LET A == last.args[1]
            B == last.args[2]
        IN /\ last.ret.delta_e = delta_e(B, A)
           /\ last.ret.delta_e.k = "sqrt"
           /\ Q(last.ret.delta_e.n, last.ret.delta_e.d) = SquaredDistance(A, B)
           /\ Q(last.ret.delta_c.n, last.ret.delta_c.d)
                = SquaredDistance(<<A[2], A[3]>>, <<B[2], B[3]>>)
           /\ last.ret.delta_c = delta_e(<<QInt(0), A[2], A[3]>>, <<QInt(0), B[2], B[3]>>)
           /\ \A l1, l2 \in TestLabValues :
                delta_c(<<l1, A[2], A[3]>>, <<l2, B[2], B[3]>>) = last.ret.delta_c

\* C16 witness: two triples that differ in L* and in a* only; delta_c is
\* positive and smaller than delta_e.
C16_Witness ==
    /\ last.op = "delta"
    /\ last.args = <<<<QInt(2), QInt(-1), QInt(0)>>, <<QInt(0), QInt(2), QInt(0)>>>>
    /\ last.ret.delta_c = [k |-> "sqrt", n |-> 9, d |-> 1]
    /\ last.ret.delta_e = [k |-> "sqrt", n |-> 13, d |-> 1]

\* the pairs of a spectrum with a wavelength in [360, 800], in their order,
\* each with the transmittance its value stands for
InRangePairs(items, absorbance) ==
    LET InRange(pair) == IsQ(pair[1]) /\ pair[1].n >= 360 * pair[1].d
                         /\ pair[1].n <= 800 * pair[1].d
        kept == SelectSeq(items, InRange)
    IN [i \in 1..Len(kept) |->
           <<kept[i][1], IF absorbance THEN Pow10Neg(kept[i][2]) ELSE kept[i][2]>>]

\* the items of the dict d as pairs
PairsOf(d) == [i \in 1..Len(d) |-> <<d[i].key, d[i].entry>>]

\* C17 as stated: for a non-empty list of pairs spectrum_to_xyz raises no
\* error, and the pairs that make up the distribution it integrates are
\* exactly the pairs with a wavelength in [360, 800], in their original order.
C17_Original ==
    (last.op = "spectrum_to_xyz" /\ last.args[1].kind = "list" /\ last.args[1].items # <<>>) =>
        /\ last.err = "none"
        /\ PairsOf(last.ret) = InRangePairs(last.args[1].items, last.args[2])

\* C17 amended: for a non-empty list of pairs spectrum_to_xyz raises no
\* error; the distribution it integrates has exactly the wavelengths of the
\* pairs in [360, 800] (360 and 800 included), each once, in the order of
\* their first occurrence, and a wavelength that occurs in several in-range
\* pairs carries the value of the last of them.
C17_DropsOutOfRange ==
    (last.op = "spectrum_to_xyz" /\ last.args[1].kind = "list" /\ last.args[1].items # <<>>) =>
        LET pairs == InRangePairs(last.args[1].items, last.args[2])
            First(i) == \A j \in 1..(i - 1) : pairs[j][1] # pairs[i][1]
            Final(i) == \A j \in (i + 1)..Len(pairs) : pairs[j][1] # pairs[i][1]
            firsts == SelectSeq([i \in 1..Len(pairs) |-> <<pairs[i][1], First(i)>>],
                                LAMBDA x : x[2])
        IN /\ last.err = "none"
           /\ KeySeq(last.ret) = [i \in 1..Len(firsts) |-> firsts[i][1]]
           /\ \A i \in 1..Len(pairs) :
                Final(i) => EntryOf(last.ret, pairs[i][1]) = pairs[i][2]

\* C17 witness: a list with 801, 800, 359 and 360 in that order was given
\* and the distribution holds 800 then 360.
C17_Witness ==
    /\ last.op = "spectrum_to_xyz" /\ last.err = "none"
    /\ last.args[1].kind = "list"
    /\ Len(last.args[1].items) = 3
    /\ last.args[1].items[1][1] = QInt(801)
    /\ last.args[1].items[3][1] = QInt(360)
    /\ KeySeq(last.ret) = <<QInt(800), QInt(360)>>

\* C20: replicate averaging is idempotent.  For a non-empty marker, no key
\* of a collection that averaged returns contains the marker, and averaged
\* asked again of that collection with the same marker raises nothing and
\* returns the same keys mapped to the same entries.
C20_AveragedIdempotent ==
    /\ (last.op = "averaged" /\ last.err = "none" /\ last.args # <<>>) =>
           \A key \in Keys(last.ret) : ~Contains(last.args, key)
    /\ (last.op = "averaged_again" /\ last.args[1] # <<>>) =>
           /\ last.err = "none"
           /\ Keys(last.ret) = Keys(last.args[2])
           /\ AsMap(last.ret) = AsMap(last.args[2])

\* C20 witness: the first averaged merged the replicates X#1 and X#1#2 into
\* X and kept Y, so its result differs from the collection, and averaged was
\* asked again of that result.
C20_Witness ==
    /\ last.op = "averaged_again" /\ last.args[1] = sHash /\ last.err = "none"
    /\ Keys(all_data) = {kX1, kX12, kY}
    /\ Keys(last.args[2]) = {kX, kY}
    /\ EntryOf(last.args[2], kX) \notin {all_data[i].entry : i \in 1..Len(all_data)}
    /\ Keys(last.ret) = {kX, kY}

\* the averaged pool avg is all.averaged() with the default marker
AveragedPoolOf(all, avg) ==
    /\ averaged(all, sHash).err = "none"
    /\ avg = averaged(all, sHash).val

AveragedPoolCurrent == AveragedPoolOf(all_data, averaged_data)

\* one call: a load that returns normally leaves the averaged pool current,
\* any other call leaves both pools alone, and a call that returns normally
\* from a state with a current averaged pool leaves it current
AveragedPoolStep ==
    /\ (last'.op \in {"load_directories", "load_sample_spectra"} /\ last'.err = "none")
         => AveragedPoolOf(all_data', averaged_data')
    /\ (last'.op \notin {"load_directories", "load_sample_spectra"})
         => (all_data' = all_data /\ averaged_data' = averaged_data)
    /\ (AveragedPoolCurrent /\ last'.err = "none")
         => AveragedPoolOf(all_data', averaged_data')

\* C19: in every state reached by calls that return normally the averaged
\* pool equals all_data.averaged("#").  It does so after construction; every
\* load that returns normally leaves it so, having recomputed it from the
\* whole raw pool; and build_groups and the analyse operations change
\* neither pool.
C19_AveragedPoolFollowsRawPool == AveragedPoolCurrent /\ [][AveragedPoolStep]_vars

\* C19 witness: after a directory load, a load of the inline samples and a
\* build_groups call, all returning normally, the raw pool holds the
\* replicates X#1 and X#2 and an inline sample, and the averaged pool holds
\* X in their place.
C19_Witness ==
    /\ last.op = "build_groups" /\ last.err = "none" /\ calls >= 3
    /\ Has(all_data, kX1) /\ Has(all_data, kX2) /\ Has(all_data, SampleName(1))
    /\ ~Has(all_data, kX) /\ Has(averaged_data, kX) /\ ~Has(averaged_data, kX1)
    /\ Has(averaged_data, SampleName(1))
    /\ AveragedPoolCurrent

\* C21: in build_groups the override assignments are applied after the key
\* list.  After build_groups, in each stored group, a target key that is
\* listed in the group's keys and held by the group's source pool, and that
\* is named by an assignment whose descriptor resolves, carries the entry
\* the descriptor names (the override's pool and key).
C21_OverrideAfterKeys ==
    last.op = "build_groups" =>
        LET gs == GroupsOf(last)
        IN \A i \in Processed(gs) :
             (\A j \in Processed(gs) : j > i => gs[j].name # gs[i].name) =>
                LET g == gs[i]
                    pool == PoolOf(g.source, all_data, averaged_data)
                IN \A a \in 1..Len(g.extra_assignments) :
                     LET target == g.extra_assignments[a].key
                         found == ResolvesTo(g.extra_assignments[a].entry,
                                             all_data, averaged_data)
                     IN (target \in Range(g.keys) /\ Has(pool, target) /\ found # {}) =>
                           /\ Has(groups[g.name], target)
                           /\ EntryOf(groups[g.name], target) \in found

\* C21 witness: build_groups stored g1 from G4, which lists X#1 from the raw
\* pool and overrides it with averaged:X; the raw pool holds X#1, the
\* averaged pool holds a different entry under X, and g1 holds that entry
\* under X#1.
C21_Witness ==
    /\ last.op = "build_groups" /\ last.err = "none" /\ last.args = <<G4>>
    /\ Has(all_data, kX1) /\ Has(averaged_data, kX)
    /\ EntryOf(averaged_data, kX) # EntryOf(all_data, kX1)
    /\ EntryOf(groups["g1"], kX1) = EntryOf(averaged_data, kX)

\* C22: build_groups is not atomic on failure.  A call whose list holds a
\* group with an unknown source tag raises ValueError; the groups before the
\* first such group have been written to the groups map from the pools, and
\* the group with the unknown tag and all later groups are neither stored
\* nor updated: every name not written by the earlier groups is in the map
\* only if it was there before, with the subset it had.
C22_BuildNotAtomic ==
    [][(/\ last'.op = "build_groups"
        /\ \E i \in 1..Len(GroupsOf(last')) : ~KnownSource(GroupsOf(last')[i].source)) =>
          LET gs == GroupsOf(last')
              written == {gs[j].name : j \in Processed(gs)}
          IN /\ last'.err = "ValueError"
             /\ DOMAIN groups' = DOMAIN groups \cup written
             /\ \A j \in Processed(gs) :
                  (\A k \in Processed(gs) : k > j => gs[k].name # gs[j].name) =>
                     LET g == gs[j]
                         pool == PoolOf(g.source, all_data, averaged_data)
                     IN /\ Keys(groups'[g.name]) \subseteq Range(g.keys) \cup Targets(g)
                        /\ \A key \in Range(g.keys) \ Targets(g) :
                             IF Has(pool, key)
                             THEN /\ Has(groups'[g.name], key)
                                  /\ EntryOf(groups'[g.name], key) = EntryOf(pool, key)
                             ELSE ~Has(groups'[g.name], key)
             /\ \A i \in (1..Len(gs)) \ Processed(gs) :
                  gs[i].name \notin written =>
                     /\ gs[i].name \in DOMAIN groups' => gs[i].name \in DOMAIN groups
                     /\ gs[i].name \in DOMAIN groups =>
                          groups'[gs[i].name] = groups[gs[i].name]]_vars

\* C22 witness: after a load and build_groups(G4), the call
\* build_groups(G2, G3, G1) raised ValueError at g3; g2, before it, is
\* stored with X and Y; g3 is not stored; g1, after it, still is the group
\* that G4 built (it holds Y, which G1 does not list).
C22_Witness ==
    /\ last.op = "build_groups" /\ last.err = "ValueError" /\ calls = 3
    /\ last.args = <<G2, G3, G1>>
    /\ "g2" \in DOMAIN groups /\ Has(groups["g2"], kX) /\ Has(groups["g2"], kY)
    /\ "g3" \notin DOMAIN groups
    /\ "g1" \in DOMAIN groups /\ Has(groups["g1"], kY)

\* C10 as stated: subset skips an absent key and returns the collection of
\* the remaining keys, without raising.
C10_Original ==
    last.op = "subset" =>
        /\ last.err = "none"
        /\ Keys(last.ret) = Range(last.args) \cap Keys(all_data)
        /\ \A key \in Keys(last.ret) : EntryOf(last.ret, key) = EntryOf(all_data, key)

\* C10 amended: subset raises KeyError, returning no collection, when some
\* listed key is absent from the collection; when every listed key is present
\* it returns the collection holding exactly the listed keys with their entries.
C10_SubsetRaisesOnAbsentKey ==
    last.op = "subset" =>
        IF Range(last.args) \subseteq Keys(all_data)
        THEN /\ last.err = "none"
             /\ Keys(last.ret) = Range(last.args)
             /\ \A key \in Keys(last.ret) : EntryOf(last.ret, key) = EntryOf(all_data, key)
        ELSE last.err = "KeyError" /\ last.ret = EmptyCollection

\* C10 witness: subset was asked for a list with a present and an absent key.
C10_Witness ==
    /\ last.op = "subset" /\ last.err = "KeyError"
    /\ \E key \in Range(last.args) : Has(all_data, key)
    /\ \E key \in Range(last.args) : ~Has(all_data, key)

====
